---- MODULE Spec2Model ----
(***************************************************************************)
(* The GPU histogramming engine GPUHist of gpu_hist.py as a state machine. *)
(*                                                                         *)
(* The state is one engine instance: the fields __init__ sets, the host    *)
(* and device histograms, the block-local histograms and the edges field;  *)
(* beside it the arguments and the outcome of the last get_hist call.      *)
(* One action, GetHist, is a whole get_hist call; SpecRerun repeats a call  *)
(* on the samples of the first.                                            *)
(*                                                                         *)
(* Floating-point values are exact fixed-point numbers: the integer x      *)
(* stands for x / Scale, so that (max - min) / no_of_bins and every edge   *)
(* min + k * bin_width are exact.  Rounding is not modelled.               *)
(*                                                                         *)
(* The CUDA kernels (gpu_hist/histogram_atomics.cu) are not among the      *)
(* sources; they follow the kernel contracts of the specification.         *)
(***************************************************************************)
EXTENDS Integers, Sequences, FiniteSets, TLC

\* Bounds of the model.
MaxDims == 2
MaxBins == 3
MaxVal == 1
MaxLen == 4
MaxSweep == 2
MaxBlocks == 2

\* block_dim[0] = 16*16 threads per block.
BlockDim == 256

VARIABLES
    no_of_dimensions, \* self.no_of_dimensions
    no_of_bins,       \* self.no_of_bins
    n_flat_bins,      \* self.n_flat_bins
    edges,            \* self.edges: [kind, rows]
    hist,             \* self.hist, the host histogram (<<>> before the first clear)
    d_hist,           \* self.d_hist, the device histogram
    d_tmp_hist,       \* self.d_tmp_hist as the binning kernel left it (<<>>: none ran)
    d_max_in,         \* d_max_in as max_min_reduce left it (<<>>: it did not run)
    d_min_in,         \* d_min_in as max_min_reduce left it (<<>>: it did not run)
    live,             \* the per-call device buffers allocated and not freed
    returned,         \* what the last call returned: [hist, edges], or Nothing
    grid_dim,         \* self.grid_dim[0]
    ctor_edges,       \* the edges argument the engine was constructed with
    n_events,         \* the sample array of the last call (the parameter n_events)
    resident,         \* the last call was handed a device allocation, not an array
    shared,           \* the flag of the last call (the parameter shared)
    stale,            \* what device memory past the sample copy held in the last call
    status,           \* "new", "ok" (the call returned) or "error" (it raised)
    launched,         \* the kernels the last call launched, in order
    fed,              \* sample values passed to this engine so far
    \* The driver's --test sweep.
    remaining,        \* the parameter combinations the loop has not reached
    timings,          \* timings, the records appended so far
    available_memory, \* cuda.mem_get_info()[0] now
    max_threads_per_block,
    \* The threads of a kernel, or the host and the device stream.
    pc,               \* where every thread is
    mem,              \* the device memory the threads share
    reg               \* the registers of every thread

engine_vars == <<no_of_dimensions, no_of_bins, n_flat_bins, edges, hist, d_hist,
                 d_tmp_hist, d_max_in, d_min_in, live, returned, grid_dim,
                 ctor_edges, n_events, resident, shared, stale, status, launched,
                 fed>>

driver_vars == <<remaining, timings, available_memory, max_threads_per_block>>

device_vars == <<pc, mem, reg>>

vars == <<engine_vars, driver_vars, device_vars>>

----------------------------------------------------------------------------
\* Arithmetic helpers.

RECURSIVE Gcd(_, _)
Gcd(a, b) == IF b = 0 THEN a ELSE Gcd(b, a % b)

RECURSIVE LcmUpTo(_)
LcmUpTo(n) == IF n <= 1 THEN 1 ELSE (LcmUpTo(n - 1) * n) \div Gcd(LcmUpTo(n - 1), n)

\* The fixed-point unit: 1.0 is Scale, and every bin count divides it.
Scale == LcmUpTo(MaxBins)

RECURSIVE Pow(_, _)
Pow(b, e) == IF e = 0 THEN 1 ELSE b * Pow(b, e - 1)

RECURSIVE SumSeq(_)
SumSeq(s) == IF s = <<>> THEN 0 ELSE Head(s) + SumSeq(Tail(s))

SetMax(S) == CHOOSE x \in S : \A y \in S : y <= x
SetMin(S) == CHOOSE x \in S : \A y \in S : x <= y

\* np.zeros(n)
Zeros(n) == [j \in 1..n |-> 0]

\* The bin of an event that is counted nowhere.
Dropped == -1

\* The values a sample coordinate takes.
SampleVals == {v * Scale : v \in 0..MaxVal}

\* What a device word that was never written may hold: any sample value, or a
\* value below every sample and every edge.
Garbage == SampleVals \cup {-Scale}

\* Device words never written by the host may hold counts, too.
GarbageCounts == {0, 1}

\* What the slots of d_max_in and of d_min_in may hold when they are
\* allocated: a value below every sample or a value above every sample.
ScratchVals == {-Scale, (MaxVal + 1) * Scale}
Scratch == [max : ScratchVals, min : ScratchVals]

\* The result of a call that raised.
Nothing == [hist |-> <<>>, edges |-> <<>>]

----------------------------------------------------------------------------
\* Edge arrays.

NoEdges == [kind |-> "none", rows |-> <<>>]

\* n + 1 uniform edges mn + k * (mx - mn) / n, k = 0..n.
Linspace(mn, mx, n) == [k \in 1..(n + 1) |-> mn + (k - 1) * ((mx - mn) \div n)]

\* The ends an edge row handed to the constructor may have: the sample values
\* and one value above them.
EdgeEnds == 0..(MaxVal + 1)

\* The edge arrays an engine is constructed with: one row of no_of_bins + 1
\* ascending edges per dimension.
EdgeArrays(D, n) ==
    {[kind |-> "array",
      rows |-> [d \in 1..D |-> Linspace(lohi[1] * Scale, lohi[2] * Scale, n)]] :
        lohi \in {p \in EdgeEnds \X EdgeEnds : p[1] < p[2]}}

RECURSIVE Flatten(_)
\* The bytes of a two-dimensional numpy array, row after row.
Flatten(rows) == IF rows = <<>> THEN <<>> ELSE Head(rows) \o Flatten(Tail(rows))

----------------------------------------------------------------------------
\* Device memory.

\* A read of word i (from 0) of a device buffer the host filled with buf: past
\* the words written, the read returns what the memory held before.
ReadCell(buf, i, st) == IF i < Len(buf) THEN buf[i + 1] ELSE st

\* Coordinate d (from 0) of event i (from 0) of the row-major sample buffer.
Coord(d_events, i, d, D, st) == ReadCell(d_events, i * D + d, st)

----------------------------------------------------------------------------
\* The kernels.

\* max_min_reduce: every block combines the maximum and the minimum of its
\* events into the slot of the dimension with max(current, candidate) and
\* min(current, candidate); scr is what the slots held at the launch.
max_min_reduce(d_events, length, D, st, scr) ==
    [max |-> [d \in 1..D |->
                SetMax({scr.max} \cup
                       {Coord(d_events, i, d - 1, D, st) : i \in 0..(length - 1)})],
     min |-> [d \in 1..D |->
                SetMin({scr.min} \cup
                       {Coord(d_events, i, d - 1, D, st) : i \in 0..(length - 1)})]]

\* The bin of value v on an axis of n uniform bins from mn to mx:
\* floor((v - mn) / bin_width), the value at mx in the last bin.  With mx = mn
\* the quotient is 0/0 for v = mn (nan_bin: what the conversion of NaN yields)
\* and infinite otherwise.
BinNoEdges(v, mn, mx, n, nan_bin) ==
    IF mx = mn
    THEN IF v = mn THEN nan_bin ELSE Dropped
    ELSE LET b == ((v - mn) * n) \div (mx - mn)
         IN  IF b = n THEN n - 1
             ELSE IF b < 0 \/ b > n THEN Dropped
             ELSE b

\* The bin of value v on axis d (from 0) of the flat edge array: the first k
\* with edge[k] <= v < edge[k+1], the value at the last edge in the last bin.
BinEdges(v, d_edges_in, d, n, st) ==
    LET E(k) == ReadCell(d_edges_in, d * (n + 1) + k, st)
        hits == {k \in 0..(n - 1) : E(k) <= v /\ v < E(k + 1)}
    IN  IF hits # {} THEN SetMin(hits)
        ELSE IF v = E(n) /\ E(0) <= v THEN n - 1
        ELSE Dropped

\* Row-major flattening of the bin coordinates b[1..D]:
\* b_0 + b_1 * n + b_2 * n^2 + ...; Dropped when an axis dropped the event.
FlatIndex(b, n) ==
    IF \E d \in DOMAIN b : b[d] = Dropped
    THEN Dropped
    ELSE SumSeq([d \in DOMAIN b |-> b[d] * Pow(n, d - 1)])

\* The flat bin thread i of histogram_gmem_atomics increments.
TargetNoEdges(d_events, i, D, n, mm, st, nan_bin) ==
    FlatIndex([d \in 1..D |->
                 BinNoEdges(Coord(d_events, i, d - 1, D, st),
                            mm.min[d], mm.max[d], n, nan_bin)], n)

\* The flat bin thread i of histogram_gmem_atomics_with_edges increments.
TargetEdges(d_events, i, D, n, d_edges_in, st) ==
    FlatIndex([d \in 1..D |->
                 BinEdges(Coord(d_events, i, d - 1, D, st), d_edges_in, d - 1, n, st)], n)

\* The block-local histograms after a binning kernel on a buffer of alloc
\* words: every block zeroes its segment, then thread i (from 0) increments
\* word blockIdx * n_flat + targets[i + 1] unless its event is dropped.  The
\* increments are atomic and commute; an increment past the buffer lands in
\* the padding of the allocation, which the host never reads.
LocalHists(targets, n_flat, alloc) ==
    [c \in 1..alloc |->
        Cardinality({i \in 0..(Len(targets) - 1) :
            /\ targets[i + 1] # Dropped
            /\ (i \div BlockDim) * n_flat + targets[i + 1] = c - 1})]

\* histogram_gmem_atomics on the first length events
hist_gmem(d_events, length, D, n, n_flat, alloc, mm, st, nan_bin) ==
    LocalHists([k \in 1..length |->
                  TargetNoEdges(d_events, k - 1, D, n, mm, st, nan_bin)],
               n_flat, alloc)

\* histogram_gmem_atomics_with_edges on the first length events
hist_gmem_given_edges(d_events, length, D, n, n_flat, alloc, d_edges_in, st) ==
    LocalHists([k \in 1..length |->
                  TargetEdges(d_events, k - 1, D, n, d_edges_in, st)],
               n_flat, alloc)

\* histogram_final_accum: thread j of the grid * BlockDim launched adds word j
\* of every block-local histogram to word j of the output.
hist_accum(in, n_blocks, out, n_flat) ==
    [j \in 1..Len(out) |->
        IF j <= n_flat /\ j <= n_blocks * BlockDim
        THEN out[j] + SumSeq([b \in 1..n_blocks |-> in[(b - 1) * n_flat + j]])
        ELSE out[j]]

----------------------------------------------------------------------------
\* The host side: GPUHist.

\* self.n_flat_bins = no_of_dimensions * no_of_bins
NFlatBins(D, n) == D * n

\* A clear() that leaves the device histogram as it is.
clear_skipped == d_hist

\* clear(): self.hist = np.zeros(self.n_flat_bins), copied to self.d_hist.
clear == Zeros(n_flat_bins)

\* dx, mx = divmod(len(n_events), block_dim[0]); grid_dim = dx + (mx > 0)
GridDim(len) == (len \div BlockDim) + (IF len % BlockDim > 0 THEN 1 ELSE 0)

\* The event count get_hist hands to max_min_reduce:
\* len(n_events) / no_of_dimensions.
ReduceLength(len, D) == len \div D

\* The event count get_hist hands to the binning kernel: len(n_events).
BinningLength(len, D) == len

\* np.arange(start, stop, step) for step > 0: ceil((stop - start) / step)
\* values start + k * step.
Arange(start, stop, step) ==
    LET cnt == IF stop <= start THEN 0 ELSE ((stop - start) + step - 1) \div step
    IN  [k \in 1..cnt |-> start + (k - 1) * step]

\* The row of edges get_hist computes for a dimension:
\* bin_width = (max - min) / no_of_bins; np.arange(min, max + 1, bin_width).
EdgesRow(mn, mx, n) == Arange(mn, mx + Scale, (mx - mn) \div n)

\* The dimensions (from 1) whose edges the loop of get_hist computes before
\* np.arange raises on a zero bin_width: all of them when none is zero.
RowsBuilt(mm, D) ==
    LET bad == {d \in 1..D : mm.max[d] = mm.min[d]}
    IN  IF bad = {} THEN D ELSE SetMin(bad) - 1

\* get_hist on an engine whose edges field is None.
GetHistNoEdges(samples, st, nan_bin, scr) ==
    LET D     == no_of_dimensions
        len   == Len(samples)
        grid  == GridDim(len)
        alloc == n_flat_bins * grid
        mm    == max_min_reduce(samples, ReduceLength(len, D), D, st, scr)
        tmp   == hist_gmem(samples, BinningLength(len, D), D, no_of_bins,
                           n_flat_bins, alloc, mm, st, nan_bin)
        final == hist_accum(tmp, grid, clear, n_flat_bins)
        built == RowsBuilt(mm, D)
        rows  == [d \in 1..built |-> EdgesRow(mm.min[d], mm.max[d], no_of_bins)]
        \* np.asarray of rows of different lengths raises.
        even  == \A d \in 1..built : Len(rows[d]) = Len(rows[1])
        done  == built = D /\ even
        new_edges == [kind |-> IF done THEN "array" ELSE "list", rows |-> rows]
    IN  [hist       |-> final,
         d_hist     |-> final,
         d_tmp_hist |-> tmp,
         d_max_in   |-> mm.max,
         d_min_in   |-> mm.min,
         grid_dim   |-> grid,
         edges      |-> new_edges,
         status     |-> IF done THEN "ok" ELSE "error",
         \* The locals are freed when the call returns; a call that raises
         \* hands its frame, and the buffers it holds, to the caller.
         live       |-> IF done THEN {"d_tmp_hist"}
                        ELSE {"d_events", "d_tmp_hist", "d_max_in", "d_min_in"},
         returned   |-> IF done THEN [hist |-> final, edges |-> new_edges] ELSE Nothing,
         launched   |-> <<"max_min_reduce", "histogram_gmem_atomics",
                          "histogram_final_accum">>]

\* get_hist on an engine whose edges field is an array.
GetHistGivenEdges(samples, st) ==
    LET D     == no_of_dimensions
        len   == Len(samples)
        grid  == GridDim(len)
        alloc == n_flat_bins * grid
        d_edges_in == Flatten(edges.rows)
        tmp   == hist_gmem_given_edges(samples, BinningLength(len, D), D,
                                       no_of_bins, n_flat_bins, alloc,
                                       d_edges_in, st)
        final == hist_accum(tmp, grid, clear, n_flat_bins)
    IN  [hist       |-> final,
         d_hist     |-> final,
         d_tmp_hist |-> tmp,
         d_max_in   |-> <<>>,
         d_min_in   |-> <<>>,
         grid_dim   |-> grid,
         edges      |-> edges,
         status     |-> "ok",
         live       |-> {"d_tmp_hist"},
         returned   |-> [hist |-> final, edges |-> edges],
         launched   |-> <<"histogram_gmem_atomics_with_edges",
                          "histogram_final_accum">>]

\* get_hist on an engine whose edges field was left a Python list by a call
\* that raised: cuda.memcpy_htod(d_edges_in, self.edges) raises before any
\* kernel is launched.
GetHistListEdges(samples) ==
    LET grid == GridDim(Len(samples))
    IN  [hist       |-> clear,
         d_hist     |-> clear,
         d_tmp_hist |-> <<>>,
         d_max_in   |-> <<>>,
         d_min_in   |-> <<>>,
         grid_dim   |-> grid,
         edges      |-> edges,
         status     |-> "error",
         live       |-> {"d_events", "d_tmp_hist", "d_edges_in"},
         returned   |-> Nothing,
         launched   |-> <<>>]

\* get_hist(n_events, shared): the flag shared is not read.
get_hist(samples, sh, st, nan_bin, scr) ==
    IF edges.kind = "none" THEN GetHistNoEdges(samples, st, nan_bin, scr)
    ELSE IF edges.kind = "array" THEN GetHistGivenEdges(samples, st)
    ELSE GetHistListEdges(samples)

----------------------------------------------------------------------------
\* The state machine.

\* The sample arrays of at most len values for D dimensions: whole events.
SampleArrays(D, len) ==
    UNION {[1..(k * D) -> SampleVals] : k \in 1..(len \div D)}

\* GPUHist(no_of_dimensions, no_of_bins, edges): d_hist is allocated and not
\* written.
Constructed(D, n, e, g) ==
    /\ no_of_dimensions = D
    /\ no_of_bins = n
    /\ n_flat_bins = NFlatBins(D, n)
    /\ edges = e
    /\ ctor_edges = e
    /\ hist = <<>>
    /\ d_hist = [j \in 1..NFlatBins(D, n) |-> g]
    /\ d_tmp_hist = <<>>
    /\ d_max_in = <<>>
    /\ d_min_in = <<>>
    /\ live = {}
    /\ returned = Nothing
    /\ grid_dim = 0
    /\ n_events = <<>>
    /\ resident = FALSE
    /\ shared = FALSE
    /\ stale = -Scale
    /\ status = "new"
    /\ launched = <<>>
    /\ fed = 0

\* No sweep of the driver is under way.
DriverIdle ==
    /\ remaining = <<>>
    /\ timings = <<>>
    /\ available_memory = 0
    /\ max_threads_per_block = 0

\* No kernel is looked at thread by thread.
DeviceIdle ==
    /\ pc = <<>>
    /\ mem = <<>>
    /\ reg = <<>>

\* An engine with no driver around it and its kernels taken whole.
EngineIdle == Constructed(1, 1, NoEdges, 0)

Init ==
    /\ \E D \in 1..MaxDims, n \in 1..MaxBins, g \in GarbageCounts :
       \E e \in {NoEdges} \cup EdgeArrays(D, n) :
           Constructed(D, n, e, g)
    /\ DriverIdle
    /\ DeviceIdle

\* One call get_hist(samples, sh) on the engine.  st is what the device words
\* past the sample copy hold (read only when the kernel is handed more events
\* than the buffer holds); nan_bin is what the conversion of NaN to a bin
\* index yields (only when a dimension has max = min).
Call(samples, sh, st, nan_bin, scr) ==
    \E r \in {get_hist(samples, sh, st, nan_bin, scr)} :
        /\ hist' = r.hist
        /\ d_hist' = r.d_hist
        /\ d_tmp_hist' = r.d_tmp_hist
        /\ d_max_in' = r.d_max_in
        /\ d_min_in' = r.d_min_in
        /\ live' = r.live
        /\ returned' = r.returned
        /\ grid_dim' = r.grid_dim
        /\ edges' = r.edges
        /\ status' = r.status
        /\ launched' = r.launched
        /\ n_events' = samples
        /\ resident' = FALSE
        /\ shared' = sh
        /\ stale' = st
        /\ fed' = fed + Len(samples)
        /\ UNCHANGED <<no_of_dimensions, no_of_bins, n_flat_bins, ctor_edges>>
        /\ UNCHANGED <<driver_vars, device_vars>>

\* The stale values a call can meet: the kernel reads past the sample copy
\* only when it is handed more events than the buffer holds.
StaleFor(samples) ==
    IF BinningLength(Len(samples), no_of_dimensions) * no_of_dimensions > Len(samples)
    THEN Garbage ELSE {-Scale}

\* What the slots of d_max_in and d_min_in can hold when max_min_reduce is
\* launched: get_hist allocates them and does not write them.
ScratchFor ==
    IF edges.kind = "none" THEN Scratch
    ELSE {[max |-> -Scale, min |-> (MaxVal + 1) * Scale]}

\* The NaN outcomes a call can meet: only a call that computes its edges from
\* samples that agree on a dimension divides by zero.
NanFor(samples) ==
    IF /\ edges.kind = "none"
       /\ \E d \in 1..no_of_dimensions :
            \A i, j \in 0..(Len(samples) \div no_of_dimensions - 1) :
               samples[i * no_of_dimensions + d] = samples[j * no_of_dimensions + d]
    THEN {Dropped, 0} ELSE {Dropped}

\* A get_hist call with any sample array the remaining budget allows.
GetHist ==
    \E samples \in SampleArrays(no_of_dimensions, MaxLen - fed) :
    \E sh \in BOOLEAN :
    \E st \in StaleFor(samples) :
    \E nan_bin \in NanFor(samples) :
    \E scr \in ScratchFor :
        Call(samples, sh, st, nan_bin, scr)

Next == GetHist

Spec == Init /\ [][Next]_vars

----------------------------------------------------------------------------
\* A first call and the same call again: get_hist on an engine built without
\* edges leaves the edges it returns in self.edges, so that the second call
\* on the same samples bins them with the returned edges.

FirstCall == status = "new" /\ GetHist

Rerun ==
    /\ status = "ok"
    /\ fed = Len(n_events)
    /\ \E sh \in BOOLEAN :
       \E st \in StaleFor(n_events) :
       \E nan_bin \in NanFor(n_events) :
       \E scr \in ScratchFor :
           Call(n_events, sh, st, nan_bin, scr)

NextRerun == FirstCall \/ Rerun

SpecRerun == Init /\ [][NextRerun]_vars

----------------------------------------------------------------------------
\* The --test sweep of the driver.

all_dims == <<1, 2, 3>>

\* np.logspace(5, 9, 5) and np.logspace(1, 4, 4), with MaxSweep powers of 2 in
\* the place of the powers of 10; the event counts are multiples of the
\* engine's block size, as the powers of 10 are far above it.
all_elements == [k \in 1..MaxSweep |-> Pow(2, k) * BlockDim]
all_bins == [k \in 1..MaxSweep |-> Pow(2, k)]

all_ftypes == <<"float32", "float64">>
all_device_samples == <<FALSE, TRUE>>
all_given_edges == <<FALSE, TRUE>>

\* product(all_dims, all_elements, all_bins, all_ftypes, all_device_samples,
\* all_given_edges): the last list runs fastest.
Product ==
    LET E == Len(all_elements)
        B == Len(all_bins)
    IN  [i \in 1..(Len(all_dims) * E * B * 8) |->
            [n_dims         |-> all_dims[((i - 1) \div (8 * B * E)) + 1],
             n_elements     |-> all_elements[(((i - 1) \div (8 * B)) % E) + 1],
             n_bins         |-> all_bins[(((i - 1) \div 8) % B) + 1],
             ftype          |-> all_ftypes[(((i - 1) \div 4) % 2) + 1],
             device_samples |-> all_device_samples[(((i - 1) \div 2) % 2) + 1],
             given_edges    |-> all_given_edges[((i - 1) % 2) + 1]]]

\* n_bytes of a combination: the local histograms, the samples and, when they
\* are given, the edges.
n_bytes(info, threads) ==
    LET dx   == info.n_elements \div threads
        mx   == info.n_elements % threads
        grid == dx + (IF mx > 0 THEN 1 ELSE 0)
        size == IF info.ftype = "float32" THEN 4 ELSE 8
    IN  Pow(info.n_bins, info.n_dims) * grid * 4
        + info.n_dims * info.n_elements * size
        + (IF info.given_edges THEN size * Pow(info.n_bins, info.n_dims) ELSE 0)

\* A parameter combination that fails the check is skipped.
SkipsLate(n, available) == n > available + 1

\* if n_bytes > available_memory: continue
Skips(n, available) == n > available

\* The free device memory cuda.mem_get_info() may report: just enough for the
\* two-dimensional single-precision combination of the largest sizes, or one
\* byte less.
MemLevels ==
    LET mid == [n_dims |-> 2, n_elements |-> all_elements[MaxSweep],
                n_bins |-> all_bins[MaxSweep], ftype |-> "float32",
                device_samples |-> FALSE, given_edges |-> FALSE]
    IN  {n_bytes(mid, max_threads_per_block) - 1, n_bytes(mid, max_threads_per_block)}

\* record_timing(method, info, timings)
record_timing(method, info) == [method |-> method, info |-> info]

\* cuda.Device(0).get_attributes(): MAX_THREADS_PER_BLOCK, 512 or 1024 on
\* the devices there are.
ThreadsPerBlock == {2 * BlockDim, 4 * BlockDim}

InitDriver ==
    /\ EngineIdle
    /\ DeviceIdle
    /\ remaining = Product
    /\ timings = <<>>
    /\ available_memory = 0
    /\ max_threads_per_block \in ThreadsPerBlock

\* One pass of the loop body: the memory check, then the CPU reference and the
\* two engine runs with their timing records.
Sweep ==
    /\ remaining # <<>>
    /\ \E available \in MemLevels :
          LET info == Head(remaining)
              n    == n_bytes(info, max_threads_per_block)
          IN  /\ available_memory' = available
              /\ remaining' = Tail(remaining)
              /\ timings' =
                    IF Skips(n, available) THEN timings
                    ELSE timings \o <<record_timing("cpu", info),
                                      record_timing("gpu_global", info),
                                      record_timing("gpu_shared", info)>>
    /\ UNCHANGED <<max_threads_per_block, engine_vars, device_vars>>

SpecDriver == InitDriver /\ [][Sweep]_vars

----------------------------------------------------------------------------
\* Engines built with an edge array the constructor does not look at: rows of
\* descending edges beside the ascending ones.

Reverse(s) == [k \in 1..Len(s) |-> s[Len(s) + 1 - k]]

DescendingEdgeArrays(D, n) ==
    {[kind |-> "array", rows |-> [d \in 1..D |-> Reverse(e.rows[d])]] :
        e \in EdgeArrays(D, n)}

InitConfig ==
    /\ \E D \in 1..MaxDims, n \in 1..MaxBins, g \in GarbageCounts :
       \E e \in EdgeArrays(D, n) \cup DescendingEdgeArrays(D, n) :
           Constructed(D, n, e, g)
    /\ DriverIdle
    /\ DeviceIdle

SpecConfig == InitConfig /\ [][Next]_vars

----------------------------------------------------------------------------
\* The CPU reference, np.histogramdd, on the events of the last call.

\* The events the caller passed: len(n_events) / no_of_dimensions of them.
NEvents == Len(n_events) \div no_of_dimensions

\* Coordinate d (from 1) of event i (from 1).
Event(i, d) == n_events[(i - 1) * no_of_dimensions + d]

ObservedMin(d) == SetMin({Event(i, d) : i \in 1..NEvents})
ObservedMax(d) == SetMax({Event(i, d) : i \in 1..NEvents})

\* The edges of the reference for a bin count: uniform from the minimum to the
\* maximum of the samples, a range of width 0 widened by 0.5 on either side.
CountEdges(d) ==
    IF ObservedMin(d) = ObservedMax(d)
    THEN Linspace(ObservedMin(d) - Scale \div 2, ObservedMax(d) + Scale \div 2, no_of_bins)
    ELSE Linspace(ObservedMin(d), ObservedMax(d), no_of_bins)

\* The bin specification of the last call: the edges the engine was built
\* with, or its bin count.
RefEdges(d) == IF ctor_edges.kind = "array" THEN ctor_edges.rows[d] ELSE CountEdges(d)

\* Event i lies inside [min_edge, max_edge] on every axis.
InRange(i) ==
    \A d \in 1..no_of_dimensions :
        /\ RefEdges(d)[1] <= Event(i, d)
        /\ Event(i, d) <= RefEdges(d)[no_of_bins + 1]

\* The reference bin of value v on an axis: closed-open bins, the last closed.
RefBin(v, row) ==
    IF v < row[1] \/ v > row[no_of_bins + 1] THEN Dropped
    ELSE IF v = row[no_of_bins + 1] THEN no_of_bins - 1
    ELSE SetMin({k \in 0..(no_of_bins - 1) : row[k + 1] <= v /\ v < row[k + 2]})

\* The row-major slot of event i in the reference histogram.
RefSlot(i) ==
    FlatIndex([d \in 1..no_of_dimensions |-> RefBin(Event(i, d), RefEdges(d))], no_of_bins)

\* The reference histogram: no_of_bins ^ no_of_dimensions slots.
RefHist ==
    [j \in 1..Pow(no_of_bins, no_of_dimensions) |->
        Cardinality({i \in 1..NEvents : RefSlot(i) = j - 1})]

\* The call that returned computed its edges itself.
ComputedEdges == status = "ok" /\ Len(launched) > 0 /\ launched[1] = "max_min_reduce"

----------------------------------------------------------------------------
\* The claims.

\* C1: the histogram get_hist returns sums to the number of events whose every
\* coordinate lies inside [min_edge, max_edge] of its axis, for every
\* dimension count and bin count.
C1_Conservation ==
    status = "ok" => SumSeq(hist) = Cardinality({i \in 1..NEvents : InRange(i)})

\* C2: an in-range event with a coordinate at the maximum of its axis is
\* counted, in the slot whose coordinate on that axis is no_of_bins - 1: the
\* returned histogram has that slot and the slot has a count.
C2_BoundaryInclusion ==
    status = "ok" =>
        \A i \in 1..NEvents :
            (/\ InRange(i)
             /\ \E d \in 1..no_of_dimensions : Event(i, d) = RefEdges(d)[no_of_bins + 1])
            => /\ RefSlot(i) + 1 \in DOMAIN hist
               /\ hist[RefSlot(i) + 1] >= 1

\* C3: with edges supplied, an event outside [min_edge, max_edge] on an axis
\* increments no bin, so that the histogram total is the event count minus
\* the number of such events.
C3_OutOfRangeDrop ==
    (status = "ok" /\ ctor_edges.kind = "array") =>
        SumSeq(hist) = NEvents - Cardinality({i \in 1..NEvents : ~InRange(i)})

\* C4: a call with supplied edges and the shared flag set obtains its
\* histogram by running the shared-memory binning kernel.
C4_StrategyRun ==
    (status = "ok" /\ ctor_edges.kind = "array" /\ shared) =>
        \E k \in DOMAIN launched : launched[k] = "histogram_smem_atomics_with_edges"

\* C5: the histogram get_hist returns equals, bin for bin, the histogram of
\* the CPU reference for the same samples and bin specification.
C5_OracleAgreement == status = "ok" => hist = RefHist

\* C6: when a call that computed its edges returned (H, E), the call on the
\* same samples with E as the edges returns H again.
C6_EdgeDeterminism ==
    [][(ComputedEdges /\ status' = "ok" /\ n_events' = n_events) => hist' = hist]_vars

C8_NoPersistence ==
    (status = "ok" /\ ctor_edges.kind = "none") =>
        \A d \in 1..no_of_dimensions :
            /\ edges.rows[d][1] = ObservedMin(d)
            /\ \E k \in DOMAIN edges.rows[d] : edges.rows[d][k] = ObservedMax(d)

\* C9: the edges a call computes are, for every dimension, exactly the
\* no_of_bins + 1 values min + k * (max - min) / no_of_bins, k = 0..no_of_bins.
C9_ComputedEdges ==
    ComputedEdges =>
        \A d \in 1..no_of_dimensions :
            edges.rows[d] = Linspace(ObservedMin(d), ObservedMax(d), no_of_bins)

\* C10: the flat histogram has n_bins ^ n_dimensions slots and the row-major
\* mapping takes the bin coordinates one-to-one into the slots of the buffer.
C10_FlatBuffer ==
    LET Coords == [1..no_of_dimensions -> 0..(no_of_bins - 1)]
    IN  /\ n_flat_bins = Pow(no_of_bins, no_of_dimensions)
        /\ status = "ok" => Len(hist) = Pow(no_of_bins, no_of_dimensions)
        /\ \A b \in Coords : FlatIndex(b, no_of_bins) \in 0..(n_flat_bins - 1)
        /\ \A b, c \in Coords :
              FlatIndex(b, no_of_bins) = FlatIndex(c, no_of_bins) => b = c

\* C11: after every get_hist call, returned or raised, every per-call device
\* buffer the call allocated has been released.
C11_ScopedRelease == status \in {"ok", "error"} => live = {}

\* The edge array has no_of_bins + 1 non-decreasing entries per dimension.
ValidEdges(e) ==
    e.kind = "array" =>
        \A d \in 1..no_of_dimensions :
            /\ Len(e.rows[d]) = no_of_bins + 1
            /\ \A k \in 1..no_of_bins : e.rows[d][k] <= e.rows[d][k + 1]

\* C12: a call on an engine whose edge array is not non-decreasing is reported
\* as an error, with no kernel launched and no device buffer left behind.
C12_ConfigErrors ==
    (status \in {"ok", "error"} /\ ~ValidEdges(ctor_edges)) =>
        /\ status = "error"
        /\ launched = <<>>
        /\ live = {}

\* The kernels the specification has a call launch.
Dispatch ==
    IF ctor_edges.kind = "none"
    THEN <<"max_min_reduce", "histogram_gmem_atomics", "histogram_final_accum">>
    ELSE IF shared
    THEN <<"histogram_smem_atomics_with_edges", "histogram_final_accum">>
    ELSE <<"histogram_gmem_atomics_with_edges", "histogram_final_accum">>

\* C13: a call launches exactly one binning kernel: without edges
\* max_min_reduce and then the no-edges kernel; with edges no max_min_reduce
\* and the shared-memory kernel when the flag is set, the global-memory kernel
\* when it is cleared.
C13_Dispatch == status = "ok" => launched = Dispatch

\* The flat bin every binning thread of the last call incremented, from the
\* buffers the call left: Dropped for a thread that incremented none.
LastTargets ==
    IF launched[1] = "max_min_reduce"
    THEN [k \in 1..BinningLength(Len(n_events), no_of_dimensions) |->
            TargetNoEdges(n_events, k - 1, no_of_dimensions, no_of_bins,
                          [max |-> d_max_in, min |-> d_min_in], stale, Dropped)]
    ELSE [k \in 1..BinningLength(Len(n_events), no_of_dimensions) |->
            TargetEdges(n_events, k - 1, no_of_dimensions, no_of_bins,
                        Flatten(edges.rows), stale)]

\* C15: a call that fails returns nothing, and a call that returns returns a
\* histogram that holds the increment of every binning thread of every block.
C15_AllOrNothing ==
    /\ status = "error" => returned = Nothing
    /\ status = "ok" =>
          /\ returned.hist = hist
          /\ SumSeq(returned.hist) =
                Cardinality({k \in DOMAIN LastTargets : LastTargets[k] # Dropped})

\* Some timing record of t is of the combination info.
Timed(t, info) == \E k \in DOMAIN t : t[k].info = info

\* C16: a combination whose estimated footprint exceeds the device memory
\* available at its check gets no timing record, and a combination gets its
\* timing records only in the loop pass that checked it and found it to fit.
C16_FootprintSkip ==
    [][/\ n_bytes(Head(remaining), max_threads_per_block) > available_memory'
            => timings' = timings
       /\ \A k \in DOMAIN Product :
             Timed(timings', Product[k]) /\ ~Timed(timings, Product[k]) =>
                 /\ Product[k] = Head(remaining)
                 /\ n_bytes(Product[k], max_threads_per_block) <= available_memory']_vars

\* The sweep has skipped a combination and has just run one that fitted
\* exactly.
C16_Witness ==
    /\ Len(timings) < 3 * (Len(Product) - Len(remaining))
    /\ timings # <<>>
    /\ timings[Len(timings)].method = "gpu_shared"
    /\ n_bytes(timings[Len(timings)].info, max_threads_per_block) = available_memory
    /\ Product[Len(Product) - Len(remaining)] = timings[Len(timings)].info

----------------------------------------------------------------------------
\* Engines with about as many bins as one block has threads.

AccumBins == {BlockDim - 1, BlockDim, BlockDim + 1}

\* Edges 0, 1, ..., n handed to the constructor.
WideEdges(n) == [kind |-> "array", rows |-> <<Linspace(0, n * Scale, n)>>]

\* Samples of the first bin and of the bins around thread BlockDim.
AccumVals == {0, (BlockDim - 1) * Scale, BlockDim * Scale}

InitAccum ==
    /\ \E n \in AccumBins, g \in GarbageCounts :
          Constructed(1, n, WideEdges(n), g)
    /\ DriverIdle
    /\ DeviceIdle

\* A get_hist call of such an engine.
Accumulate ==
    \E k \in 1..(MaxLen - fed) :
    \E samples \in [1..k -> AccumVals] :
    \E sh \in BOOLEAN :
        Call(samples, sh, -Scale, Dropped, [max |-> -Scale, min |-> (MaxVal + 1) * Scale])

SpecAccum == InitAccum /\ [][Accumulate]_vars

\* C17: after a call every slot of the final histogram holds the sum of that
\* slot over all block-local histograms, whatever the number of slots and the
\* number of threads launched.
C17_FinalAccumulation ==
    status = "ok" =>
        \A j \in 1..n_flat_bins :
            hist[j] = SumSeq([b \in 1..grid_dim |->
                                d_tmp_hist[(b - 1) * n_flat_bins + j]])

----------------------------------------------------------------------------
\* max_min_reduce, thread by thread: the first thread of every block combines
\* the block's maximum and minimum into the global slots d_max_in and d_min_in.

Blocks == 1..MaxBlocks

\* The maximum and the minimum a block found among its events.
BlockResults == {r \in [max : SampleVals, min : SampleVals] : r.min <= r.max}

\* d_max_in and d_min_in are allocated and handed to the kernel as they are.
InitReduce ==
    /\ EngineIdle
    /\ DriverIdle
    /\ \E res \in [Blocks -> BlockResults], scr \in Scratch :
          mem = [d_max_in |-> scr.max, d_min_in |-> scr.min,
                 block_max |-> [b \in Blocks |-> res[b].max],
                 block_min |-> [b \in Blocks |-> res[b].min]]
    /\ pc = [b \in Blocks |-> "read_max"]
    /\ reg = [b \in Blocks |-> 0]

\* old = *address
ReadMax(b) ==
    /\ pc[b] = "read_max"
    /\ reg' = [reg EXCEPT ![b] = mem.d_max_in]
    /\ pc' = [pc EXCEPT ![b] = "cas_max"]
    /\ UNCHANGED <<mem, engine_vars, driver_vars>>

\* old = atomicCAS(address, assumed, max(candidate, assumed)), again until the
\* slot held the assumed value.
CasMax(b) ==
    /\ pc[b] = "cas_max"
    /\ IF mem.d_max_in = reg[b]
       THEN /\ mem' = [mem EXCEPT !.d_max_in = SetMax({mem.block_max[b], reg[b]})]
            /\ pc' = [pc EXCEPT ![b] = "read_min"]
            /\ UNCHANGED reg
       ELSE /\ reg' = [reg EXCEPT ![b] = mem.d_max_in]
            /\ UNCHANGED <<mem, pc>>
    /\ UNCHANGED <<engine_vars, driver_vars>>

ReadMin(b) ==
    /\ pc[b] = "read_min"
    /\ reg' = [reg EXCEPT ![b] = mem.d_min_in]
    /\ pc' = [pc EXCEPT ![b] = "cas_min"]
    /\ UNCHANGED <<mem, engine_vars, driver_vars>>

CasMin(b) ==
    /\ pc[b] = "cas_min"
    /\ IF mem.d_min_in = reg[b]
       THEN /\ mem' = [mem EXCEPT !.d_min_in = SetMin({mem.block_min[b], reg[b]})]
            /\ pc' = [pc EXCEPT ![b] = "done"]
            /\ UNCHANGED reg
       ELSE /\ reg' = [reg EXCEPT ![b] = mem.d_min_in]
            /\ UNCHANGED <<mem, pc>>
    /\ UNCHANGED <<engine_vars, driver_vars>>

NextReduce ==
    \/ \E b \in Blocks : ReadMax(b)
    \/ \E b \in Blocks : CasMax(b)
    \/ \E b \in Blocks : ReadMin(b)
    \/ \E b \in Blocks : CasMin(b)

SpecReduce == InitReduce /\ [][NextReduce]_vars

\* C18: when every block has combined its result, the global maximum and
\* minimum are the maximum and minimum over the blocks' events, whatever the
\* slots held before the kernel and however the blocks interleave.
C18_ReduceCAS ==
    (\A b \in Blocks : pc[b] = "done") =>
        /\ mem.d_max_in = SetMax({mem.block_max[b] : b \in Blocks})
        /\ mem.d_min_in = SetMin({mem.block_min[b] : b \in Blocks})

----------------------------------------------------------------------------
\* histogram_gmem_atomics_with_edges, thread by thread, on a one-dimensional
\* engine of MaxBins bins and a launch of two blocks.  The threads followed are
\* the first two of block 0 and the first ones of block 1; the events of all
\* other threads lie outside the edges and increment nothing.

ThreadOf(k) == IF k <= 2 THEN k - 1 ELSE BlockDim + k - 3

BinThreads == {ThreadOf(k) : k \in 1..MaxLen}

\* The edges of the engine.
BinningEdges == Linspace(0, MaxVal * Scale, MaxBins)

\* The flat bin of the event of thread t.
ThreadTarget(t) ==
    TargetEdges(<<mem.d_events[t]>>, 0, 1, MaxBins, BinningEdges, -Scale)

\* Word (from 1) of d_tmp_hist that thread t increments.
ThreadSlot(t) == (t \div BlockDim) * MaxBins + reg[t].target + 1

\* A read of the slot, an addition and a write of the sum, not atomic: seen is
\* what the slot held when the thread looked up its bin.
plainAdd(current, seen) == seen + 1

\* atomicAdd(address, 1)
atomicAdd(current, seen) == current + 1

InitBinning ==
    /\ EngineIdle
    /\ DriverIdle
    /\ \E ev \in [BinThreads -> Garbage] :
          mem = [d_events |-> ev, d_tmp_hist |-> Zeros(2 * MaxBins)]
    /\ pc = [t \in BinThreads |-> "bin"]
    /\ reg = [t \in BinThreads |-> [target |-> Dropped, seen |-> 0]]

\* Thread t looks up the bin of its event.
Bin(t) ==
    /\ pc[t] = "bin"
    /\ \E b \in {ThreadTarget(t)} :
          /\ reg' = [reg EXCEPT ![t] =
                [target |-> b,
                 seen   |-> IF b = Dropped THEN 0
                            ELSE mem.d_tmp_hist[(t \div BlockDim) * MaxBins + b + 1]]]
          /\ pc' = [pc EXCEPT ![t] = IF b = Dropped THEN "done" ELSE "add"]
    /\ UNCHANGED <<mem, engine_vars, driver_vars>>

\* Thread t increments its slot of the block-local histogram of its block.
Add(t) ==
    /\ pc[t] = "add"
    /\ mem' = [mem EXCEPT !.d_tmp_hist[ThreadSlot(t)] = atomicAdd(@, reg[t].seen)]
    /\ pc' = [pc EXCEPT ![t] = "done"]
    /\ UNCHANGED <<reg, engine_vars, driver_vars>>

NextBinning ==
    \/ \E t \in BinThreads : Bin(t)
    \/ \E t \in BinThreads : Add(t)

SpecBinning == InitBinning /\ [][NextBinning]_vars

\* The events of block b that fall into flat bin j.
BlockCount(b, j) ==
    Cardinality({t \in BinThreads : t \div BlockDim = b /\ ThreadTarget(t) = j})

\* C19: when all binning threads are done, every slot of every block-local
\* histogram holds the number of the block's events of that bin, and the
\* accumulated histogram the number of all events of that bin, in whatever
\* order the threads ran.
C19_OrderIndependence ==
    (\A t \in BinThreads : pc[t] = "done") =>
        /\ \A b \in 0..1, j \in 0..(MaxBins - 1) :
              mem.d_tmp_hist[b * MaxBins + j + 1] = BlockCount(b, j)
        /\ \A j \in 0..(MaxBins - 1) :
              hist_accum(mem.d_tmp_hist, 2, Zeros(MaxBins), MaxBins)[j + 1] =
                  BlockCount(0, j) + BlockCount(1, j)

\* Two threads of one block have looked up the same bin before either added to
\* it, and all threads are done.
C19_Witness ==
    /\ \A t \in BinThreads : pc[t] = "done"
    /\ \E t, u \in BinThreads :
          /\ t # u
          /\ t \div BlockDim = u \div BlockDim
          /\ reg[t].target = reg[u].target
          /\ reg[t].target # Dropped
          /\ reg[t].seen = reg[u].seen

----------------------------------------------------------------------------
\* histogram_smem_atomics_with_edges, thread by thread, for one block of MaxLen threads
\* and a one-dimensional histogram of MaxBins bins.

SharedThreads == 0..(MaxLen - 1)

\* The steps of a thread, in program order.
Rank(p) ==
    CASE p = "zero"  -> 0
      [] p = "sync1" -> 1
      [] p = "inc"   -> 2
      [] p = "sync2" -> 3
      [] p = "copy"  -> 4
      [] p = "done"  -> 5

\* The slots (from 1) thread t handles in a loop over the histogram that the
\* threads of the block share out: t, t + blockDim, ...
Share(t) == {i \in 1..MaxBins : (i - 1) % MaxLen = t}

\* A barrier that lets every thread through at once.
NoBarrier(p) == TRUE

\* __syncthreads() at step p: every thread of the block has arrived.
Arrived(p) == \A u \in SharedThreads : Rank(pc[u]) >= Rank(p)

\* Shared memory and the block's slot of d_tmp_hist hold what they held before.
InitShared ==
    /\ EngineIdle
    /\ DriverIdle
    /\ \E ev \in [SharedThreads -> Garbage], g \in GarbageCounts, h \in GarbageCounts :
          mem = [d_events   |-> ev,
                 smem       |-> [i \in 1..MaxBins |-> g],
                 d_tmp_hist |-> [i \in 1..MaxBins |-> h]]
    /\ pc = [t \in SharedThreads |-> "zero"]
    /\ reg = <<>>

\* Thread t zeroes its share of the shared histogram.
ZeroShared(t) ==
    /\ pc[t] = "zero"
    /\ mem' = [mem EXCEPT !.smem =
                  [i \in 1..MaxBins |-> IF i \in Share(t) THEN 0 ELSE @[i]]]
    /\ pc' = [pc EXCEPT ![t] = "sync1"]
    /\ UNCHANGED <<reg, engine_vars, driver_vars>>

\* Thread t leaves the barrier after the zeroing.
Sync1(t) ==
    /\ pc[t] = "sync1"
    /\ Arrived("sync1")
    /\ pc' = [pc EXCEPT ![t] = "inc"]
    /\ UNCHANGED <<mem, reg, engine_vars, driver_vars>>

\* Thread t bins its event and increments the shared slot atomically.
IncShared(t) ==
    /\ pc[t] = "inc"
    /\ \E b \in {ThreadTarget(t)} :
          mem' = IF b = Dropped THEN mem
                 ELSE [mem EXCEPT !.smem[b + 1] = atomicAdd(@, @)]
    /\ pc' = [pc EXCEPT ![t] = "sync2"]
    /\ UNCHANGED <<reg, engine_vars, driver_vars>>

\* Thread t leaves the barrier after the increments.
Sync2(t) ==
    /\ pc[t] = "sync2"
    /\ Arrived("sync2")
    /\ pc' = [pc EXCEPT ![t] = "copy"]
    /\ UNCHANGED <<mem, reg, engine_vars, driver_vars>>

\* Thread t copies its share of the shared histogram to the block's slot.
CopyOut(t) ==
    /\ pc[t] = "copy"
    /\ mem' = [mem EXCEPT !.d_tmp_hist =
                  [i \in 1..MaxBins |-> IF i \in Share(t) THEN mem.smem[i] ELSE @[i]]]
    /\ pc' = [pc EXCEPT ![t] = "done"]
    /\ UNCHANGED <<reg, engine_vars, driver_vars>>

NextShared ==
    \/ \E t \in SharedThreads : ZeroShared(t)
    \/ \E t \in SharedThreads : Sync1(t)
    \/ \E t \in SharedThreads : IncShared(t)
    \/ \E t \in SharedThreads : Sync2(t)
    \/ \E t \in SharedThreads : CopyOut(t)

SpecShared == InitShared /\ [][NextShared]_vars

\* C20: no thread increments the shared histogram before every thread has
\* zeroed its share, no thread copies out before every thread has made its
\* increment, and when the block is done its slot of the block-local array
\* holds the number of the block's in-range events of every bin.
C20_SharedProtocol ==
    /\ (\E t \in SharedThreads : Rank(pc[t]) >= Rank("inc")) =>
          \A u \in SharedThreads : pc[u] # "zero"
    /\ (\E t \in SharedThreads : Rank(pc[t]) >= Rank("copy")) =>
          \A u \in SharedThreads : Rank(pc[u]) >= Rank("sync2")
    /\ (\A t \in SharedThreads : pc[t] = "done") =>
          \A j \in 0..(MaxBins - 1) :
              mem.d_tmp_hist[j + 1] =
                  Cardinality({t \in SharedThreads : ThreadTarget(t) = j})

\* The block is done, two of its threads hit one bin, and an event was dropped.
C20_Witness ==
    /\ \A t \in SharedThreads : pc[t] = "done"
    /\ \E j \in 1..MaxBins : mem.d_tmp_hist[j] >= 2
    /\ \E t \in SharedThreads : ThreadTarget(t) = Dropped

----------------------------------------------------------------------------
\* One get_hist call on the device's default stream: the host enqueues the
\* kernels one after the other without waiting, the device runs their blocks,
\* and the copy of the histogram to the host waits for the stream.

\* The kernels get_hist launches, in program order.
LaunchOrder(given) ==
    IF given
    THEN <<"histogram_gmem_atomics_with_edges", "histogram_final_accum">>
    ELSE <<"max_min_reduce", "histogram_gmem_atomics", "histogram_final_accum">>

Kernels ==
    {"max_min_reduce", "histogram_gmem_atomics",
     "histogram_gmem_atomics_with_edges", "histogram_final_accum"}

BinningKernels == {"histogram_gmem_atomics", "histogram_gmem_atomics_with_edges"}

\* Kernel k has been launched and all its blocks have finished.
Complete(k) ==
    /\ \E i \in DOMAIN mem.stream : mem.stream[i] = k
    /\ \A b \in 1..reg.grid : mem.blocks[k][b] = "done"

\* A device that runs whatever has been launched.
StartsAtOnce(k) == \E i \in DOMAIN mem.stream : mem.stream[i] = k

\* Work of one stream runs in the order of its launches: a kernel starts when
\* everything launched before it is complete.
CanStart(k) ==
    \E i \in DOMAIN mem.stream :
        /\ mem.stream[i] = k
        /\ \A j \in 1..(i - 1) : Complete(mem.stream[j])

InitStream ==
    /\ EngineIdle
    /\ DriverIdle
    /\ pc = 1
    /\ \E given \in BOOLEAN, grid \in 1..MaxBlocks :
          reg = [given |-> given, grid |-> grid]
    /\ mem = [stream |-> <<>>,
              blocks |-> [k \in Kernels |-> [b \in 1..MaxBlocks |-> "idle"]],
              copied |-> FALSE]

\* The host launches its next kernel and goes on.
Launch ==
    /\ pc <= Len(LaunchOrder(reg.given))
    /\ mem' = [mem EXCEPT !.stream = Append(@, LaunchOrder(reg.given)[pc])]
    /\ pc' = pc + 1
    /\ UNCHANGED <<reg, engine_vars, driver_vars>>

\* A block of kernel k starts.
BlockStart(k, b) ==
    /\ CanStart(k)
    /\ mem.blocks[k][b] = "idle"
    /\ mem' = [mem EXCEPT !.blocks[k][b] = "running"]
    /\ UNCHANGED <<pc, reg, engine_vars, driver_vars>>

\* A block of kernel k finishes.
BlockFinish(k, b) ==
    /\ mem.blocks[k][b] = "running"
    /\ mem' = [mem EXCEPT !.blocks[k][b] = "done"]
    /\ UNCHANGED <<pc, reg, engine_vars, driver_vars>>

\* cuda.memcpy_dtoh(self.hist, self.d_hist): returns when the stream has
\* drained and the copy is made.
MemcpyDtoH ==
    /\ pc = Len(LaunchOrder(reg.given)) + 1
    /\ \A i \in DOMAIN mem.stream : Complete(mem.stream[i])
    /\ mem' = [mem EXCEPT !.copied = TRUE]
    /\ pc' = pc + 1
    /\ UNCHANGED <<reg, engine_vars, driver_vars>>

NextStream ==
    \/ Launch
    \/ \E k \in Kernels, b \in 1..reg.grid : BlockStart(k, b)
    \/ \E k \in Kernels, b \in 1..reg.grid : BlockFinish(k, b)
    \/ MemcpyDtoH

SpecStream == InitStream /\ [][NextStream]_vars

\* Some block of kernel k has started.
Started(k) == \E b \in 1..reg.grid : mem.blocks[k][b] # "idle"

\* C14: within a call no binning block runs before every block of
\* max_min_reduce (when used) has finished, no block of the final accumulation
\* runs before every binning block has finished, and the histogram is copied
\* to the host only after the final accumulation has finished.
C14_KernelOrdering ==
    /\ (~reg.given /\ Started("histogram_gmem_atomics")) => Complete("max_min_reduce")
    /\ Started("histogram_final_accum") =>
          \E k \in BinningKernels : Complete(k)
    /\ mem.copied => Complete("histogram_final_accum")

\* A call that computed its edges has run its three kernels on more than one
\* block each and has copied the histogram back.
C14_Witness ==
    /\ mem.copied
    /\ ~reg.given
    /\ reg.grid > 1
    /\ Complete("max_min_reduce")
    /\ Complete("histogram_gmem_atomics")

----------------------------------------------------------------------------
\* C21: a call launches ceil(events / 256) blocks and allocates n_flat_bins
\* slots per block; it runs one binning thread per event, and every increment
\* falls inside the buffer and inside the segment of the thread's own block.
C21_LaunchGeometry ==
    status = "ok" =>
        /\ grid_dim = GridDim(NEvents)
        /\ Len(d_tmp_hist) = n_flat_bins * grid_dim
        /\ Len(LastTargets) = NEvents
        /\ \A k \in DOMAIN LastTargets :
              LastTargets[k] # Dropped =>
                  /\ LastTargets[k] \in 0..(n_flat_bins - 1)
                  /\ ((k - 1) \div BlockDim) * n_flat_bins + LastTargets[k]
                        < Len(d_tmp_hist)

----------------------------------------------------------------------------
\* Calls with samples that are on the device already.

\* get_hist handed a pycuda DeviceAllocation that holds samples: clear() runs,
\* then n_events.nbytes raises, before anything is allocated or launched.
GetHistDevice ==
    \E samples \in SampleArrays(no_of_dimensions, MaxLen - fed) :
    \E sh \in BOOLEAN :
        /\ hist' = clear
        /\ d_hist' = clear
        /\ d_tmp_hist' = <<>>
        /\ d_max_in' = <<>>
        /\ d_min_in' = <<>>
        /\ live' = {}
        /\ returned' = Nothing
        /\ status' = "error"
        /\ launched' = <<>>
        /\ n_events' = samples
        /\ resident' = TRUE
        /\ shared' = sh
        /\ stale' = -Scale
        /\ fed' = fed + Len(samples)
        /\ UNCHANGED <<no_of_dimensions, no_of_bins, n_flat_bins, ctor_edges,
                       edges, grid_dim>>
        /\ UNCHANGED <<driver_vars, device_vars>>

NextResidency ==
    \/ GetHist
    \/ GetHistDevice

SpecResidency == Init /\ [][NextResidency]_vars

\* C22: a call with device-resident samples allocates no copy of them, runs
\* its kernels on the caller's buffer and returns.
C22_Residency ==
    resident =>
        /\ "d_events" \notin live
        /\ status = "ok"
        /\ launched # <<>>

\* C23: in a call, the number of events of the sample array is what the grid
\* is computed from and what max_min_reduce and the binning kernel are handed,
\* and no kernel is handed more events than the sample buffer holds.
C23_EventCount ==
    status = "ok" =>
        /\ grid_dim = GridDim(NEvents)
        /\ launched[1] = "max_min_reduce" =>
              ReduceLength(Len(n_events), no_of_dimensions) = NEvents
        /\ BinningLength(Len(n_events), no_of_dimensions) = NEvents
        /\ BinningLength(Len(n_events), no_of_dimensions) * no_of_dimensions
              <= Len(n_events)

\* The words of d_edges_in: cuda.mem_alloc((self.n_flat_bins + 1) * itemsize).
EdgeWords == n_flat_bins + 1

\* C24: the device edge buffer of a call with supplied edges has room for the
\* no_of_dimensions * (no_of_bins + 1) values of the edge array copied to it.
C24_EdgeBuffer ==
    (status = "ok" /\ ctor_edges.kind = "array") =>
        /\ Len(Flatten(ctor_edges.rows)) = no_of_dimensions * (no_of_bins + 1)
        /\ Len(Flatten(ctor_edges.rows)) <= EdgeWords

----------------------------------------------------------------------------
\* What an engine built for a combination of the sweep allocates in get_hist
\* for a sample array of n_elements events: d_events, d_tmp_hist and, with
\* edges, d_edges_in.
EngineBytes(info) ==
    LET len    == info.n_dims * info.n_elements
        size   == IF info.ftype = "float32" THEN 4 ELSE 8
        n_flat == NFlatBins(info.n_dims, info.n_bins)
    IN  len * size
        + n_flat * GridDim(len) * 4
        + (IF info.given_edges THEN (n_flat + 1) * size ELSE 0)

\* C25: for every combination the sweep ran, what the engine allocates in
\* get_hist is at most the driver's estimate n_bytes.
C25_EstimateBound ==
    \A k \in DOMAIN timings :
        EngineBytes(timings[k].info)
            <= n_bytes(timings[k].info, max_threads_per_block)

====
